---- MODULE Spec2Model ----
(***************************************************************************)
(* rss-feed-mail: the feed-to-delivery pipeline (src/index.js main), the   *)
(* feed fetch adapter (src/utils/rssUtils.js getFeedItems), the cursor     *)
(* store (config.js loadCursorFile / updateCursor) and the retry policy    *)
(* (src/utils/retryUtils.js retryOperation), and label provisioning        *)
(* (src/gmailLabels.js createLabels).                                      *)
(*                                                                         *)
(* Spec is the pipeline over the README configuration for every mode and   *)
(* --max-retries value; DeliverySpec is the delivering mode with the       *)
(* default retry count over a one-group configuration; ProvisionSpec is    *)
(* successive createLabels calls against one mailbox.                      *)
(*                                                                         *)
(* Timestamps are milliseconds since the epoch, modelled as the integers   *)
(* 1..MaxTime; an absent (falsy) isoDate is NoDate and an absent cursor    *)
(* entry is NoEntry.  The wall clock is the variable now.                  *)
(*                                                                         *)
(* A JavaScript string whose content is split, joined or compared by the   *)
(* code (group names, paths, label names, subjects) is a sequence of       *)
(* tokens: the separators the code looks for ("/", "[", "]", ": ", " ")    *)
(* are tokens of their own and every other token is a maximal run of       *)
(* other characters.  Concatenation is \o and the empty string is << >>.   *)
(***************************************************************************)
EXTENDS Integers, Sequences, FiniteSets, TLC

\* ---------------------------------------------------------------- bounds
MaxTime == 2          \* largest timestamp / clock value
MaxItems == 2         \* items published over all feeds
MaxRetriesOpt == 1    \* largest value given to --max-retries
MaxCertRetries == 2   \* certificate errors followed per fetch
MaxProvRuns == 2      \* successive createLabels calls

\* ------------------------------------------------------- program constants
NoDate == 0           \* item.isoDate absent: `b.isoDate || 0`
NoEntry == 0          \* `cursor[feed.url] || null`
NoResponseCode == 0   \* error without a responseCode
TempLow == 400        \* isTemporaryEmailError: responseCode >= 400
TempHigh == 500       \* isTemporaryEmailError: responseCode < 500
DefaultRetryDelay == 5000
DefaultMaxRetries == 3

MAIL_LABELS == [RSS_FEED |-> <<"RSS Feeds">>, UNCATEGORIZED |-> <<"Uncategorized">>]

\* The feed configuration fetched from the configuration store: the tree of
\* the README example (group Technology with one feed and the subgroup
\* Programming with one feed).
FeedConfig ==
  [groups |-> <<
     [name |-> <<"Technology">>,
      feeds |-> << [title |-> <<"Hacker News">>, url |-> "u1"] >>,
      groups |-> <<
         [name |-> <<"Programming">>,
          feeds |-> << [title |-> <<"Dev.to">>, url |-> "u2"] >>,
          groups |-> << >>] >>] >>]

\* A configuration of one group holding one feed.
TechConfig ==
  [groups |-> <<
     [name |-> <<"Tech">>,
      feeds |-> << [title |-> <<"Hacker News">>, url |-> "u1"] >>,
      groups |-> << >>] >>]

\* A configuration whose groups hold no feed: a group with one subgroup.
SparseConfig ==
  [groups |-> <<
     [name |-> <<"News">>,
      feeds |-> << >>,
      groups |-> <<
         [name |-> <<"Local">>, feeds |-> << >>, groups |-> << >>] >>] >>]

\* A configuration whose only group has the empty string as its name.
UnnamedConfig ==
  [groups |-> <<
     [name |-> << >>,
      feeds |-> << [title |-> <<"Hacker News">>, url |-> "u1"] >>,
      groups |-> << >>] >>]

Urls == {"u1", "u2"}

\* The <title> of each feed document as the parser returns it: the first
\* feed's document has none (the configured title is used for it), the
\* second one's differs from the configured title.
ParsedTitle == [u \in Urls |-> IF u = "u1" THEN << >> ELSE <<"DEV Community">>]

\* config.email.from with the display name stripped.
FromEmail == <<"rss@example.com">>
Dates == 1..MaxTime
ErrorCodes == {NoResponseCode, TempLow, TempHigh}

\* ------------------------------------------------------- taxonomy resolver
RECURSIVE extractFeedsOfGroups(_, _)
\* One record per feed of a group, with the group's path.
FeedsOfGroup(group, groupPath) ==
  [i \in 1..Len(group.feeds) |->
     [title |-> group.feeds[i].title, url |-> group.feeds[i].url,
      groupPath |-> groupPath]]

\* The body of extractFeeds' loop over feedConfig.groups.
extractFeedsOfGroups(groups, parentPath) ==
  IF groups = << >> THEN << >>
  ELSE LET group == Head(groups)
           groupPath == IF parentPath # << >>
                        THEN parentPath \o <<"/">> \o group.name
                        ELSE group.name
       IN  FeedsOfGroup(group, groupPath)
           \o extractFeedsOfGroups(group.groups, groupPath)
           \o extractFeedsOfGroups(Tail(groups), parentPath)

extractFeeds(feedConfig) == extractFeedsOfGroups(feedConfig.groups, << >>)

RECURSIVE searchGroups(_, _, _)
\* findGroupPathForFeed's inner search: [found, path], path being the value
\* left in result.path (null, here << >>, when nothing was found).
searchGroups(groups, parentPath, feedUrl) ==
  IF groups = << >> THEN [found |-> FALSE, path |-> << >>]
  ELSE LET group == Head(groups)
           currentPath == IF parentPath # << >>
                          THEN parentPath \o <<"/">> \o group.name
                          ELSE group.name
           sub == searchGroups(group.groups, currentPath, feedUrl)
       IN  IF \E i \in 1..Len(group.feeds) : group.feeds[i].url = feedUrl
           THEN [found |-> TRUE, path |-> currentPath]
           ELSE IF sub.found THEN sub
           ELSE searchGroups(Tail(groups), parentPath, feedUrl)

\* `result.path || MAIL_LABELS.UNCATEGORIZED`
findGroupPathForFeed(feedUrl, feedConfig) ==
  LET result == searchGroups(feedConfig.groups, << >>, feedUrl)
  IN  IF result.path # << >> THEN result.path ELSE MAIL_LABELS.UNCATEGORIZED

\* ---------------------------------------------------------------- strings
RECURSIVE Split(_, _)
\* s.split(sep): the pieces of s between the occurrences of the token sep
\* (one piece more than there are separators; << >> splits to <<<< >>>>).
Split(s, sep) ==
  IF \A i \in 1..Len(s) : s[i] # sep THEN <<s>>
  ELSE LET i == CHOOSE k \in 1..Len(s) :
                  s[k] = sep /\ \A j \in 1..(k - 1) : s[j] # sep
       IN  <<SubSeq(s, 1, i - 1)>> \o Split(SubSeq(s, i + 1, Len(s)), sep)

\* s.startsWith(prefix)
StartsWith(s, prefix) ==
  Len(prefix) <= Len(s) /\ SubSeq(s, 1, Len(prefix)) = prefix

RECURSIVE Brackets(_)
\* parts.map((part) => `[${part}]`).join('')
Brackets(parts) ==
  IF parts = << >> THEN << >>
  ELSE <<"[">> \o Head(parts) \o <<"]">> \o Brackets(Tail(parts))

\* formatGroupHierarchyForSubject: "Technology/Programming" becomes
\* "[Technology][Programming]".
formatGroupHierarchyForSubject(groupPath) ==
  IF groupPath = << >> \/ groupPath = MAIL_LABELS.UNCATEGORIZED
  THEN Brackets(<<MAIL_LABELS.UNCATEGORIZED>>)
  ELSE Brackets(Split(groupPath, "/"))

RECURSIVE JoinWith(_, _)
\* parts.join(sep)
JoinWith(parts, sep) ==
  IF parts = << >> THEN << >>
  ELSE IF Len(parts) = 1 THEN parts[1]
  ELSE parts[1] \o <<sep>> \o JoinWith(Tail(parts), sep)

RECURSIVE LabelPrefixes(_, _)
\* buildLabelString's loop: `currentPath += '/' + component; labels.push(currentPath)`
LabelPrefixes(pathComponents, currentPath) ==
  IF pathComponents = << >> THEN << >>
  ELSE LET extended == currentPath \o <<"/">> \o Head(pathComponents)
       IN  <<extended>> \o LabelPrefixes(Tail(pathComponents), extended)

buildLabelStringFullPathOnly(labelPath) ==
  JoinWith(<<MAIL_LABELS.RSS_FEED, MAIL_LABELS.RSS_FEED \o <<"/">> \o labelPath>>, ",")

\* The labels buildLabelString collects before joining them.
LabelList(labelPath) ==
  <<MAIL_LABELS.RSS_FEED>> \o LabelPrefixes(Split(labelPath, "/"), MAIL_LABELS.RSS_FEED)

\* buildLabelString: "RSS Feeds,RSS Feeds/a,RSS Feeds/a/b" for "a/b".
buildLabelString(labelPath) == JoinWith(LabelList(labelPath), ",")

\* ------------------------------------------------------ feed fetch adapter
\* `item.isoDate ? new Date(item.isoDate) : new Date()`
ItemDate(item, clock) == IF item.isoDate # NoDate THEN item.isoDate ELSE clock

KeepItemGe(item, sinceDate, clock) == ItemDate(item, clock) >= sinceDate

\* The filter predicate: `itemDate > lastFetchDate`.
KeepItem(item, sinceDate, clock) == ItemDate(item, clock) > sinceDate

RECURSIVE FilterItems(_, _, _)
FilterItems(items, sinceDate, clock) ==
  IF items = << >> THEN << >>
  ELSE IF KeepItem(Head(items), sinceDate, clock)
       THEN <<Head(items)>> \o FilterItems(Tail(items), sinceDate, clock)
       ELSE FilterItems(Tail(items), sinceDate, clock)

\* `new Date(x.isoDate || 0)`
SortKey(item) == IF item.isoDate # NoDate THEN item.isoDate ELSE 0

RECURSIVE InsertSorted(_, _)
\* x goes after every element whose key is >= its own (a stable sort).
InsertSorted(sorted, x) ==
  IF sorted = << >> THEN <<x>>
  ELSE IF SortKey(Head(sorted)) >= SortKey(x)
       THEN <<Head(sorted)>> \o InsertSorted(Tail(sorted), x)
       ELSE <<x>> \o sorted

RECURSIVE SortItems(_)
\* items.sort((a, b) => new Date(b.isoDate || 0) - new Date(a.isoDate || 0))
SortItems(items) ==
  IF items = << >> THEN << >>
  ELSE InsertSorted(SortItems(SubSeq(items, 1, Len(items) - 1)), items[Len(items)])

\* The success path of getFeedItems: filter against the watermark, sort
\* newest first, add the feed's title and url to every item.
getFeedItems(feedUrl, sinceDate, fallbackTitle, parsedFeed, clock) ==
  LET title == IF parsedFeed.title # << >> THEN parsedFeed.title ELSE fallbackTitle
      filtered == IF sinceDate # NoEntry
                  THEN FilterItems(parsedFeed.items, sinceDate, clock)
                  ELSE parsedFeed.items
      sorted == SortItems(filtered)
  IN  [url |-> feedUrl,
       items |-> [i \in 1..Len(sorted) |->
                    [id |-> sorted[i].id, isoDate |-> sorted[i].isoDate,
                     feedTitle |-> title, feedUrl |-> feedUrl]]]

\* ----------------------------------------------------------- cursor store
EmptyCursor == [u \in Urls |-> NoEntry]

\* loadCursorFile: the parsed file, or {} with exists = false both when the
\* file is missing (ENOENT) and when reading or parsing it fails.
loadCursorFile(file, readOk) ==
  IF file.exists /\ readOk
  THEN [cursor |-> file.data, exists |-> TRUE]
  ELSE [cursor |-> EmptyCursor, exists |-> FALSE]

\* `latestItem.isoDate || new Date().toISOString()`
CursorValue(latestItem, clock) ==
  IF latestItem.isoDate # NoDate THEN latestItem.isoDate ELSE clock

\* The index of the entry of feedResults for a url, 0 when it has none.
ResultIndex(feedResults, url) ==
  IF \E i \in 1..Len(feedResults) : feedResults[i].url = url
  THEN CHOOSE i \in 1..Len(feedResults) : feedResults[i].url = url
  ELSE 0

LatestItemLast(result) == result.items[Len(result.items)]

\* `result.items[0]`
LatestItem(result) == result.items[1]

\* updateCursor's loop over Object.entries(feedResults).
AdvanceCursor(cursor, feedResults, clock) ==
  [u \in Urls |->
     LET i == ResultIndex(feedResults, u)
     IN  IF i # 0 /\ Len(feedResults[i].items) > 0
         THEN CursorValue(LatestItem(feedResults[i]), clock)
         ELSE cursor[u]]

\* ------------------------------------------------------------ retry policy
IsTemporaryLoose(error) ==
  error.responseCode # NoResponseCode /\ error.responseCode >= TempLow

\* isTemporaryEmailError: responseCode present and in 400..499.
isTemporaryEmailError(error) ==
  /\ error.responseCode # NoResponseCode
  /\ error.responseCode >= TempLow
  /\ error.responseCode < TempHigh

ShouldRetryOffByOne(attempt, maxRetries, error) ==
  attempt + 1 < maxRetries /\ isTemporaryEmailError(error)

\* `attempt < maxRetries && isRetryable(error)`
ShouldRetry(attempt, maxRetries, error) ==
  attempt < maxRetries /\ isTemporaryEmailError(error)

RetryDelayLinear(initialDelay, attempt) == initialDelay * attempt

RECURSIVE Pow2(_)
Pow2(n) == IF n <= 0 THEN 1 ELSE 2 * Pow2(n - 1)

\* `initialDelay * Math.pow(2, attempt - 1)`
RetryDelay(initialDelay, attempt) == initialDelay * Pow2(attempt - 1)

\* ------------------------------------------------------------ fetch fan-in
RECURSIVE CombineFrom(_)
\* fetchFeeds' forEach: results[result.url] = {items} for every non-null
\* result with at least one item (a repeated url keeps its first position).
CombineFrom(fetchResults) ==
  IF fetchResults = << >> THEN << >>
  ELSE LET n == Len(fetchResults)
           rest == CombineFrom(SubSeq(fetchResults, 1, n - 1))
           result == fetchResults[n]
           entry == [url |-> result.url, items |-> result.items]
           at == ResultIndex(rest, result.url)
       IN  IF result.ok /\ Len(result.items) > 0
           THEN IF at # 0 THEN [rest EXCEPT ![at] = entry]
                ELSE Append(rest, entry)
           ELSE rest

CombineAbortOnFailure(fetchResults) ==
  IF \E i \in 1..Len(fetchResults) : ~fetchResults[i].ok THEN << >>
  ELSE CombineFrom(fetchResults)

\* The results map fetchFeeds returns once Promise.all has resolved; a
\* failed fetch resolved to null in fetchFeedWithRetry and is skipped.
CombineResults(fetchResults) == CombineFrom(fetchResults)

SinceDateIgnored(cursor, url) == NoEntry

\* `cursor[feed.url] || null`
SinceDate(cursor, url) == cursor[url]

SubjectTitleFirst(item, groupPath) ==
  item.feedTitle \o <<": ">> \o <<"Item " \o ToString(item.id)>> \o <<" ">>
    \o formatGroupHierarchyForSubject(groupPath)

\* item.title: every item is titled after its id.
ItemTitle(item) == <<"Item " \o ToString(item.id)>>

\* `${hierarchyPrefix} ${item.feedTitle}: ${item.title}`
Subject(item, groupPath) ==
  formatGroupHierarchyForSubject(groupPath) \o <<" ">> \o item.feedTitle
    \o <<": ">> \o ItemTitle(item)

RECURSIVE extractItemsFromFeeds(_, _)
\* One deliverable per item of every entry of feedResults, in entry order.
extractItemsFromFeeds(feedResults, feedConfig) ==
  IF feedResults = << >> THEN << >>
  ELSE LET result == Head(feedResults)
           groupPath == findGroupPathForFeed(result.url, feedConfig)
       IN  [i \in 1..Len(result.items) |->
              [item |-> result.items[i],
               subject |-> Subject(result.items[i], groupPath),
               groupPath |-> groupPath]]
           \o extractItemsFromFeeds(Tail(feedResults), feedConfig)

\* ------------------------------------------------------------------ state
VARIABLES
  feeds,          \* url -> the items the feed currently publishes
  now,            \* the wall clock
  cursorFile,     \* cursor.json: [exists, data: url -> watermark]
  pc,             \* where main() is
  options,        \* parseCommandLineOptions' result
  cursor,         \* the cursor loaded at the start of the run
  cursorExists,
  fetchState,     \* per flattened feed: the promise of fetchFeedWithRetry
  feedResults,    \* fetchFeeds' results, in key order
  items,          \* extractItemsFromFeeds' deliverables
  sendIdx,        \* the deliverable sendEmails is at
  attempt,        \* retryOperation's loop counter
  callLog,        \* the latest retryOperation call: invocations, delays, errors
  results,        \* sendEmails' tally {sent, failed, failedItems}
  runLog,         \* what the run did: writes, prompt, crash, items attempted
  feedConfig,     \* the configuration the configuration store serves
  gmail,          \* the mail provider: its labels and filters
  prov,           \* createLabels: where it is and what it did
  race,           \* two overlapping runs of main() over one cursor file
  pureCall        \* one call of a pure function: its argument and result

vars == <<feeds, now, cursorFile, pc, options, cursor, cursorExists, fetchState,
          feedResults, items, sendIdx, attempt, callLog, results, runLog,
          feedConfig, gmail, prov, race, pureCall>>

FeedsToFetch == extractFeeds(feedConfig)

\* surfaced: the responseCode of the error the call threw (thrown = TRUE).
NewCallLog == [ended |-> FALSE, ok |-> FALSE, thrown |-> FALSE, invocations |-> 0,
               delays |-> << >>, errors |-> << >>, surfaced |-> NoResponseCode]

NewRunLog == [args |-> << >>, writes |-> 0, prompted |-> FALSE, declined |-> FALSE,
              crashed |-> "", labels |-> "", attempted |-> 0, rejected |-> 0,
              cursorAtStart |-> cursorFile, writeClock |-> 0]

\* A command-line argument: its text, and what parseInt makes of it (isNum
\* is FALSE for NaN).
Word(text) == [text |-> text, isNum |-> FALSE, value |-> 0]
Num(n) == [text |-> ToString(n), isNum |-> TRUE, value |-> n]

\* args.indexOf(flag), counted from 1; 0 when the flag is absent.
IndexOf(args, flag) ==
  IF \E i \in 1..Len(args) : args[i].text = flag
  THEN CHOOSE i \in 1..Len(args) :
         args[i].text = flag /\ \A j \in 1..(i - 1) : args[j].text # flag
  ELSE 0

getArgValue(args, flag, defaultValue) ==
  LET index == IndexOf(args, flag)
  IN  IF index # 0 /\ index < Len(args)
      THEN IF args[index + 1].isNum THEN args[index + 1].value ELSE defaultValue
      ELSE defaultValue

hasFlag(args, flag) == \E i \in 1..Len(args) : args[i].text = flag

parseCommandLineOptions(args) ==
  [createLabels |-> hasFlag(args, "--create-labels"),
   updateCursorOnly |-> hasFlag(args, "--update-cursor-only"),
   maxRetries |-> getArgValue(args, "--max-retries", DefaultMaxRetries),
   initialRetryDelay |-> getArgValue(args, "--retry-delay", DefaultRetryDelay)]

\* The command lines tried: the delivering mode with every --max-retries
\* value in -1..MaxRetriesOpt, and every combination of the two mode flags
\* (those modes never read maxRetries).
CommandLines ==
  { <<Word("--max-retries"), Num(n)>> : n \in (-1)..MaxRetriesOpt }
  \cup { <<Word("--create-labels")>>, <<Word("--update-cursor-only")>>,
         <<Word("--create-labels"), Word("--update-cursor-only")>> }

\* The command lines of the delivering mode with the default retry count:
\* no flag at all, and a --retry-delay of its own.
DefaultCommandLines == { << >>, <<Word("--retry-delay"), Num(1000)>> }

RECURSIVE CountItems(_, _)
CountItems(published, S) ==
  IF S = {} THEN 0
  ELSE LET u == CHOOSE x \in S : TRUE
       IN  Len(published[u]) + CountItems(published, S \ {u})

PublishedCount == CountItems(feeds, Urls)

\* The number of items the feeds publish in all: MaxItems, and one more under
\* the one-group configuration, whose feed starts with two items.
PublishLimit == IF feedConfig = TechConfig THEN MaxItems + 1 ELSE MaxItems

DefaultOptions == parseCommandLineOptions(<< >>)

\* A mailbox without user labels and filters.
EmptyMailbox == [labels |-> {}, filters |-> {}]

\* createLabels has not been called.  run counts the calls; plan is the
\* labels still to ensure and requests the filters still to create in the
\* call in progress; labelCreates and filterCreates count its create calls.
IdleProvisioning ==
  [pc |-> "idle", run |-> 0, prevResolved |-> FALSE, plan |-> << >>,
   labelMap |-> << >>, requests |-> << >>, labelCreates |-> 0,
   filterCreates |-> 0, failedAt |-> "", filtersAtStart |-> {},
   titles |-> << >>, prevTitles |-> << >>]

\* No overlapping runs have started.
IdleRace ==
  [runs |-> [r \in {1, 2} |->
               [pc |-> "idle", cursor |-> EmptyCursor, feedResults |-> << >>,
                reloaded |-> EmptyCursor, attempted |-> {}, emailed |-> {}]],
   written |-> [u \in Urls |-> NoEntry], overlapped |-> FALSE,
   readFailed |-> FALSE]

\* No pure function has been called.
NoCall == [fn |-> "", arg |-> << >>, out |-> << >>, returned |-> FALSE]

IdleRunLog ==
  [NewRunLog EXCEPT !.cursorAtStart = [exists |-> FALSE, data |-> EmptyCursor]]

Init ==
  /\ feeds = [u \in Urls |-> << >>]
  /\ now = 0
  /\ cursorFile = [exists |-> FALSE, data |-> EmptyCursor]
  /\ pc = "idle"
  /\ options = DefaultOptions
  /\ cursor = EmptyCursor
  /\ cursorExists = FALSE
  /\ fetchState = << >>
  /\ feedResults = << >>
  /\ items = << >>
  /\ sendIdx = 0
  /\ attempt = 0
  /\ callLog = NewCallLog
  /\ results = [sent |-> 0, failed |-> 0, failedItems |-> << >>]
  /\ runLog = IdleRunLog
  /\ feedConfig = FeedConfig
  /\ gmail = EmptyMailbox
  /\ prov = IdleProvisioning
  /\ race = IdleRace
  /\ pureCall = NoCall

Between == pc = "idle"

\* ------------------------------------------------------------- environment
\* A feed publishes a new item, dated or not, at the head of its document.
Publish(u, d) ==
  /\ Between
  /\ PublishedCount < PublishLimit
  /\ LET item == [id |-> Len(feeds[u]) + 1, isoDate |-> d]
     IN  feeds' = [feeds EXCEPT ![u] = <<item>> \o @]
  /\ UNCHANGED <<feedConfig, gmail, prov, race, pureCall>>
  /\ UNCHANGED <<now, cursorFile, pc, options, cursor, cursorExists, fetchState,
                 feedResults, items, sendIdx, attempt, callLog, results,
                 runLog>>

\* Time passes while a run delivers, before its cursor update.
Tick ==
  /\ pc = "cursor"
  /\ now < MaxTime
  /\ now' = now + 1
  /\ UNCHANGED <<feedConfig, gmail, prov, race, pureCall>>
  /\ UNCHANGED <<feeds, cursorFile, pc, options, cursor, cursorExists, fetchState,
                 feedResults, items, sendIdx, attempt, callLog, results,
                 runLog>>

\* --------------------------------------------------------------- main()
\* node src/index.js [flags]: parseCommandLineOptions, then fetchFeedConfig
\* is awaited.  A run starts at least one clock tick after the previous one.
StartRun(args) ==
  /\ Between
  /\ now < MaxTime
  /\ now' = now + 1
  /\ options' = parseCommandLineOptions(args)
  /\ pc' = "config"
  /\ runLog' = [NewRunLog EXCEPT !.args = args]
  /\ UNCHANGED <<feedConfig, gmail, prov, race, pureCall>>
  /\ UNCHANGED <<feeds, cursorFile, cursor, cursorExists, fetchState, feedResults,
                 items, sendIdx, attempt, callLog, results>>

\* The process exits; nothing but the cursor file outlives it.
ExitRun ==
  /\ pc = "done"
  /\ pc' = "idle"
  /\ options' = DefaultOptions
  /\ runLog' = IdleRunLog
  /\ cursor' = EmptyCursor
  /\ cursorExists' = FALSE
  /\ fetchState' = << >>
  /\ feedResults' = << >>
  /\ items' = << >>
  /\ sendIdx' = 0
  /\ attempt' = 0
  /\ callLog' = NewCallLog
  /\ results' = [sent |-> 0, failed |-> 0, failedItems |-> << >>]
  /\ UNCHANGED <<feedConfig, gmail, prov, race, pureCall>>
  /\ UNCHANGED <<feeds, now, cursorFile>>

\* certRetries: the depth of getFeedItems' recursion while the fetch of the
\* feed is in progress.
PendingFetches ==
  [i \in 1..Len(FeedsToFetch) |->
     [status |-> "pending", ok |-> FALSE, certRetries |-> 0,
      url |-> FeedsToFetch[i].url, items |-> << >>]]

AfterConfigIgnoresFailure(configOk) == "fetch"

\* Where main goes after `await fetchFeedConfig()`: on to fetchFeeds, or to
\* its catch when the configuration fetch threw.
AfterConfig(configOk) == IF configOk THEN "fetch" ELSE "done"

\* fetchFeedConfig: the configuration fetch (fatal when it fails), then
\* loadCursorFile; fetchFeeds then starts one fetch per flattened feed.
FetchFeedConfig(configOk, readOk) ==
  /\ pc = "config"
  /\ pc' = AfterConfig(configOk)
  /\ runLog' = IF configOk THEN runLog ELSE [runLog EXCEPT !.crashed = "config"]
  /\ IF AfterConfig(configOk) = "fetch"
     THEN LET loaded == loadCursorFile(cursorFile, readOk)
          IN  /\ cursor' = loaded.cursor
              /\ cursorExists' = loaded.exists
              /\ fetchState' = PendingFetches
     ELSE UNCHANGED <<cursor, cursorExists, fetchState>>
  /\ UNCHANGED <<feedConfig, gmail, prov, race, pureCall>>
  /\ UNCHANGED <<feeds, now, cursorFile, options, feedResults, items, sendIdx,
                 attempt, callLog, results>>

\* fetchFeedWithRetry for one feed: getFeedItems' result, or null when the
\* parser throws.
fetchFeedWithRetry(feed, loadedCursor, parsedFeed, clock, parseOk) ==
  IF parseOk
  THEN LET r == getFeedItems(feed.url, SinceDate(loadedCursor, feed.url),
                             feed.title, parsedFeed, clock)
       IN  [ok |-> TRUE, url |-> r.url, items |-> r.items]
  ELSE [ok |-> FALSE, url |-> feed.url, items |-> << >>]

\* One of the concurrent fetches makes a step: parseURL settles.  On a
\* certificate error (ERR_TLS_CERT_ALTNAME_INVALID) getFeedItems calls
\* itself again with the same arguments; on any other outcome the fetch
\* settles.
FetchFeed(i, outcome) ==
  /\ pc = "fetch"
  /\ i \in DOMAIN fetchState
  /\ fetchState[i].status # "done"
  /\ IF outcome = "cert"
     THEN /\ fetchState[i].certRetries < MaxCertRetries
          /\ fetchState' = [fetchState EXCEPT ![i].certRetries = @ + 1]
     ELSE LET url == FeedsToFetch[i].url
              r == fetchFeedWithRetry(FeedsToFetch[i], cursor,
                                      [title |-> ParsedTitle[url],
                                       items |-> feeds[url]],
                                      now, outcome = "ok")
          IN  fetchState' = [fetchState EXCEPT
                ![i] = [status |-> "done", ok |-> r.ok, certRetries |-> 0,
                        url |-> r.url, items |-> r.items]]
  /\ UNCHANGED <<feedConfig, gmail, prov, race, pureCall>>
  /\ UNCHANGED <<feeds, now, cursorFile, pc, options, cursor, cursorExists,
                 feedResults, items, sendIdx, attempt, callLog, results,
                 runLog>>

\* main lines 40-43 after processFeedsAndSendEmails returned.
AfterSending(res) == IF Len(res) > 0 THEN "cursor" ELSE "done"

CursorOnlyAlwaysUpdates(res, existed) == "cursor"

\* handleCursorOnlyUpdate up to its first await.
CursorOnlyNext(res, existed) ==
  IF Len(res) > 0
  THEN IF existed THEN "prompt" ELSE "cursor"
  ELSE "done"

ModeAlwaysDelivers(opts) == "deliver"

ModeIgnoresCreateLabels(opts) ==
  IF opts.updateCursorOnly THEN "cursorOnly" ELSE "deliver"

\* main lines 26-38: the branch taken for the command-line options.
Mode(opts) ==
  IF opts.updateCursorOnly THEN "cursorOnly"
  ELSE IF opts.createLabels THEN "labels"
  ELSE "deliver"

SomeFetchSettled(promises) ==
  promises = << >> \/ \E i \in DOMAIN promises : promises[i].status = "done"

\* `await Promise.all(fetchPromises)` resolves: every promise has settled.
AllFetchesSettled(promises) ==
  \A i \in DOMAIN promises : promises[i].status = "done"

\* Promise.all has resolved: fetchFeeds returns its results and main
\* takes the branch of the command-line options.
JoinFetches ==
  /\ pc = "fetch"
  /\ AllFetchesSettled(fetchState)
  /\ LET res == CombineResults(fetchState)
         its == extractItemsFromFeeds(res, feedConfig)
     IN  /\ feedResults' = res
         /\ IF Mode(options) = "cursorOnly"
            THEN /\ pc' = CursorOnlyNext(res, cursorExists)
                 /\ UNCHANGED <<items, sendIdx, runLog>>
            ELSE IF Mode(options) = "labels"
            THEN /\ pc' = "labels"
                 /\ UNCHANGED <<items, sendIdx, runLog>>
            ELSE /\ items' = its
                 /\ sendIdx' = 1
                 /\ UNCHANGED runLog
                 /\ pc' = IF Len(its) = 0 THEN AfterSending(res) ELSE "send"
  /\ UNCHANGED <<feedConfig, gmail, prov, race, pureCall>>
  /\ UNCHANGED <<feeds, now, cursorFile, options, cursor, cursorExists, fetchState,
                 attempt, callLog, results>>

\* promptForConfirmation resolves with the user's answer.
Prompt(answer) ==
  /\ pc = "prompt"
  /\ runLog' = [runLog EXCEPT !.prompted = TRUE, !.declined = ~answer]
  /\ pc' = IF answer THEN "cursor" ELSE "done"
  /\ UNCHANGED <<feedConfig, gmail, prov, race, pureCall>>
  /\ UNCHANGED <<feeds, now, cursorFile, options, cursor, cursorExists, fetchState,
                 feedResults, items, sendIdx, attempt, callLog, results>>

\* handleLabelCreation: createLabels resolves or rejects; both return.
LabelCreation(ok) ==
  /\ pc = "labels"
  /\ pc' = "done"
  /\ runLog' = [runLog EXCEPT !.labels = IF ok THEN "created" ELSE "failed"]
  /\ UNCHANGED <<feedConfig, gmail, prov, race, pureCall>>
  /\ UNCHANGED <<feeds, now, cursorFile, options, cursor, cursorExists, fetchState,
                 feedResults, items, sendIdx, attempt, callLog, results>>

\* ------------------------------------------------------------ sendEmails
\* The state after sendEmailWithRetry settled for the current item: the
\* loop of sendEmails moves on, and after the last item main goes on to
\* the cursor update.
ItemSettled(call) ==
  /\ callLog' = call
  /\ attempt' = 0
  /\ sendIdx' = sendIdx + 1
  /\ pc' = IF sendIdx + 1 > Len(items) THEN AfterSending(feedResults) ELSE "send"

\* The record of the retryOperation call in progress (a new one when the
\* previous call has ended).
CurrentCall == IF callLog.ended THEN NewCallLog ELSE callLog

\* One iteration of retryOperation's loop for the current item: the backoff
\* delay when attempt > 0, then sendEmail, which resolves (sendOk) or throws
\* an error carrying `code` as its responseCode.
SendAttempt(sendOk, code) ==
  /\ pc = "send"
  /\ attempt <= options.maxRetries
  /\ LET error == [responseCode |-> code]
         log == [CurrentCall EXCEPT
                   !.invocations = @ + 1,
                   !.delays = IF attempt > 0
                              THEN Append(@, RetryDelay(options.initialRetryDelay,
                                                        attempt))
                              ELSE @,
                   !.errors = IF sendOk THEN @ ELSE Append(@, code)]
         counted == IF CurrentCall.invocations = 0
                    THEN [runLog EXCEPT !.attempted = @ + 1]
                    ELSE runLog
     IN  IF sendOk
         THEN /\ results' = [results EXCEPT !.sent = @ + 1]
              /\ runLog' = counted
              /\ ItemSettled([log EXCEPT !.ended = TRUE, !.ok = TRUE])
         ELSE IF ShouldRetry(attempt, options.maxRetries, error)
         THEN /\ attempt' = attempt + 1
              /\ callLog' = log
              /\ runLog' = counted
              /\ UNCHANGED <<pc, sendIdx, results>>
         ELSE /\ results' = [results EXCEPT
                   !.failed = @ + 1,
                   !.failedItems = Append(@, [subject |-> items[sendIdx].subject])]
              /\ runLog' = [counted EXCEPT !.rejected = @ + 1]
              /\ ItemSettled([log EXCEPT !.ended = TRUE, !.thrown = TRUE,
                                         !.surfaced = code])
  /\ UNCHANGED <<feedConfig, gmail, prov, race, pureCall>>
  /\ UNCHANGED <<feeds, now, cursorFile, options, cursor, cursorExists, fetchState,
                 feedResults, items>>

\* retryOperation's loop ends without having returned or thrown (the loop
\* condition `attempt <= maxRetries` is false): `throw lastError` throws
\* undefined, the catch of sendEmails reads `error.message` of it, and that
\* TypeError leaves sendEmails and is caught by main's catch.
RetryLoopExit ==
  /\ pc = "send"
  /\ ~(attempt <= options.maxRetries)
  /\ pc' = "done"
  /\ runLog' = [runLog EXCEPT !.rejected = @ + 1, !.crashed = "TypeError"]
  /\ callLog' = [CurrentCall EXCEPT !.ended = TRUE, !.thrown = TRUE]
  /\ UNCHANGED <<feedConfig, gmail, prov, race, pureCall>>
  /\ UNCHANGED <<feeds, now, cursorFile, options, cursor, cursorExists, fetchState,
                 feedResults, items, sendIdx, attempt, results>>

\* ----------------------------------------------------------- updateCursor
\* updateCursor(feedResults): reload the cursor file, set the entry of every
\* feed with items, write the file.
UpdateCursor(readOk) ==
  /\ pc = "cursor"
  /\ LET loaded == loadCursorFile(cursorFile, readOk)
     IN  cursorFile' = [exists |-> TRUE,
                        data |-> AdvanceCursor(loaded.cursor, feedResults, now)]
  /\ runLog' = [runLog EXCEPT !.writes = @ + 1, !.writeClock = now]
  /\ pc' = "done"
  /\ UNCHANGED <<feedConfig, gmail, prov, race, pureCall>>
  /\ UNCHANGED <<feeds, now, options, cursor, cursorExists, fetchState, feedResults,
                 items, sendIdx, attempt, callLog, results>>

\* ------------------------------------------------------------------- spec
Next ==
  \/ \E u \in Urls, d \in {NoDate} \cup Dates : Publish(u, d)
  \/ Tick
  \/ \E args \in CommandLines : StartRun(args)
  \/ \E configOk \in BOOLEAN, readOk \in BOOLEAN : FetchFeedConfig(configOk, readOk)
  \/ \E i \in 1..Len(FeedsToFetch), outcome \in {"ok", "error", "cert"} : FetchFeed(i, outcome)
  \/ JoinFetches
  \/ \E answer \in BOOLEAN : Prompt(answer)
  \/ \E ok \in BOOLEAN : LabelCreation(ok)
  \/ SendAttempt(TRUE, NoResponseCode)
  \/ \E code \in ErrorCodes : SendAttempt(FALSE, code)
  \/ RetryLoopExit
  \/ \E readOk \in BOOLEAN : UpdateCursor(readOk)
  \/ ExitRun

Spec == Init /\ [][Next]_vars

\* ------------------------------------------------------- createLabels
RECURSIVE GroupPlan(_, _)
\* The ensureLabel calls of createGroupLabels in order: a group's label, the
\* labels of its feeds, then its subgroups.
GroupPlan(groups, parentPath) ==
  IF groups = << >> THEN << >>
  ELSE LET group == Head(groups)
           labelPath == parentPath \o <<"/">> \o group.name
       IN  << [kind |-> "group", path |-> labelPath, url |-> "", title |-> << >>] >>
           \o [i \in 1..Len(group.feeds) |->
                 [kind |-> "feed", path |-> labelPath,
                  url |-> group.feeds[i].url, title |-> group.feeds[i].title]]
           \o GroupPlan(group.groups, labelPath)
           \o GroupPlan(Tail(groups), parentPath)

\* The ensureLabel calls of createLabels: the root label first.
LabelPlan(config) ==
  << [kind |-> "root", path |-> MAIL_LABELS.RSS_FEED, url |-> "", title |-> << >>] >>
  \o GroupPlan(config.groups, MAIL_LABELS.RSS_FEED)

\* getFeedTitle: the parsed title, or the configured one when the document
\* has none or cannot be fetched.
getFeedTitle(feedUrl, fallbackTitle, titleOk) ==
  IF titleOk /\ ParsedTitle[feedUrl] # << >> THEN ParsedTitle[feedUrl]
  ELSE fallbackTitle

\* The label path an entry of the plan is for.
EntryLabelPath(entry, titleOk) ==
  IF entry.kind = "feed"
  THEN entry.path \o <<"/">> \o getFeedTitle(entry.url, entry.title, titleOk)
  ELSE entry.path

\* labelMap[labelPath] = id: a key already present keeps its position.  The
\* provider's id of a label is modelled by the label's name.
PutLabel(labelMap, labelPath) ==
  IF \E i \in 1..Len(labelMap) : labelMap[i] = labelPath THEN labelMap
  ELSE Append(labelMap, labelPath)

HasLabel(labelMap, labelPath) == \E i \in 1..Len(labelMap) : labelMap[i] = labelPath

\* labelPath.split('/').filter((part) => part !== MAIL_LABELS.RSS_FEED)
PathParts(labelPath) ==
  SelectSeq(Split(labelPath, "/"), LAMBDA part : part # MAIL_LABELS.RSS_FEED)

\* getExistingFilters: `filter.criteria.subject || ''` of every filter.
getExistingFilters(filters) == { f.subject : f \in filters }

RECURSIVE FeedFilterRequests(_, _, _)
\* createFeedFilters: the filters.create calls for the entries of labelMap
\* from position i on.
FeedFilterRequests(labelMap, existingFilters, i) ==
  IF i > Len(labelMap) THEN << >>
  ELSE LET labelPath == labelMap[i]
           parts == PathParts(labelPath)
           isParentPath == \E j \in 1..Len(labelMap) :
                             /\ labelMap[j] # labelPath
                             /\ StartsWith(labelMap[j], labelPath \o <<"/">>)
           feedTitle == parts[Len(parts)]
           groups == SubSeq(parts, 1, Len(parts) - 1)
           subjectPattern == Brackets(groups) \o <<": ">> \o feedTitle
           rest == FeedFilterRequests(labelMap, existingFilters, i + 1)
       IN  IF Len(parts) = 0 \/ isParentPath \/ Len(parts) < 2 THEN rest
           ELSE IF subjectPattern \in existingFilters THEN rest
           ELSE << [subject |-> subjectPattern, from |-> FromEmail,
                    addLabel |-> labelPath, removeInbox |-> TRUE] >> \o rest

RECURSIVE GroupFilterRequests(_, _, _)
\* createGroupFilters: the filters.create calls for the label paths that
\* have another label path beneath them.
GroupFilterRequests(labelMap, existingFilters, i) ==
  IF i > Len(labelMap) THEN << >>
  ELSE LET groupPath == labelMap[i]
           hasChildFeeds == \E j \in 1..Len(labelMap) :
                              /\ labelMap[j] # groupPath
                              /\ StartsWith(labelMap[j], groupPath \o <<"/">>)
                              /\ labelMap[j][Len(labelMap[j])] # "/"
           parts == PathParts(groupPath)
           subjectPattern == Brackets(parts)
           rest == GroupFilterRequests(labelMap, existingFilters, i + 1)
       IN  IF ~hasChildFeeds \/ Len(parts) = 0 THEN rest
           ELSE IF subjectPattern \in existingFilters THEN rest
           ELSE << [subject |-> subjectPattern, from |-> FromEmail,
                    addLabel |-> groupPath, removeInbox |-> FALSE] >> \o rest

\* createGeneralSenderFilter: nothing without labelMap['RSS Feeds'], nothing
\* when an existing filter's subject equals the sender address.
GeneralSenderFilterRequests(labelMap, existingFilters) ==
  IF ~HasLabel(labelMap, MAIL_LABELS.RSS_FEED) THEN << >>
  ELSE IF FromEmail \in existingFilters THEN << >>
  ELSE << [subject |-> << >>, from |-> FromEmail,
           addLabel |-> MAIL_LABELS.RSS_FEED, removeInbox |-> TRUE] >>

\* createLabelSpecificFilters: feed filters, group filters, the general one.
FilterRequests(labelMap, existingFilters) ==
  FeedFilterRequests(labelMap, existingFilters, 1)
  \o GroupFilterRequests(labelMap, existingFilters, 1)
  \o GeneralSenderFilterRequests(labelMap, existingFilters)

mainVars == <<feeds, now, cursorFile, pc, options, cursor, cursorExists, fetchState,
              feedResults, items, sendIdx, attempt, callLog, results, runLog>>

\* handleLabelCreation calls createLabels(feedConfig): getGmailClient.
StartCreateLabels(clientOk) ==
  /\ prov.pc \in {"idle", "done", "failed"}
  /\ prov.run < MaxProvRuns
  /\ prov' = [IdleProvisioning EXCEPT
                !.run = prov.run + 1,
                !.prevResolved = (prov.pc = "done"),
                !.prevTitles = prov.titles,
                !.filtersAtStart = gmail.filters,
                !.pc = IF clientOk THEN "labels" ELSE "failed",
                !.failedAt = IF clientOk THEN "" ELSE "client",
                !.plan = IF clientOk THEN LabelPlan(feedConfig) ELSE << >>]
  /\ UNCHANGED <<feedConfig, gmail>>
  /\ UNCHANGED <<mainVars, race, pureCall>>

\* Where createLabels is after an ensureLabel call threw at the given step:
\* ensureLabel rethrows, createGroupLabels has no catch, createLabels
\* rethrows.
AfterLabelFailure(step) == "failed"

\* ensureLabel for the next label of the plan (for a feed, after
\* getFeedTitle): list the labels, return the one of that name or create
\* it; createGroupLabels puts the label in labelMap.
EnsureLabel(listOk, createOk, titleOk) ==
  /\ prov.pc = "labels"
  /\ prov.plan # << >>
  /\ LET entry == Head(prov.plan)
         labelPath == EntryLabelPath(entry, titleOk)
         exists == labelPath \in gmail.labels
         failedStep == IF ~listOk THEN "listLabels"
                       ELSE IF ~exists /\ ~createOk THEN "createLabel"
                       ELSE ""
         rest == Tail(prov.plan)
     IN  IF failedStep # ""
         THEN /\ prov' = [prov EXCEPT !.pc = AfterLabelFailure(failedStep),
                                      !.failedAt = failedStep]
              /\ UNCHANGED gmail
         ELSE /\ gmail' = [gmail EXCEPT !.labels = @ \cup {labelPath}]
              /\ prov' = [prov EXCEPT
                    !.plan = rest,
                    !.pc = IF rest = << >> THEN "filters" ELSE "labels",
                    !.labelMap = IF entry.kind = "root" THEN @
                                 ELSE PutLabel(@, labelPath),
                    !.titles = IF entry.kind = "feed" THEN Append(@, labelPath)
                               ELSE @,
                    !.labelCreates = IF exists THEN @ ELSE @ + 1]
  /\ UNCHANGED feedConfig
  /\ UNCHANGED <<mainVars, race, pureCall>>

\* createFilters: getExistingFilters, then the create calls to make are
\* decided against that listing.
ListFilters(listOk) ==
  /\ prov.pc = "filters"
  /\ IF listOk
     THEN LET requests == FilterRequests(prov.labelMap, getExistingFilters(gmail.filters))
          IN  prov' = [prov EXCEPT !.requests = requests,
                                   !.pc = IF requests = << >> THEN "done"
                                          ELSE "creating"]
     ELSE prov' = [prov EXCEPT !.pc = "failed", !.failedAt = "listFilters"]
  /\ UNCHANGED <<feedConfig, gmail>>
  /\ UNCHANGED <<mainVars, race, pureCall>>

\* The next gmail.users.settings.filters.create call; a rejected call
\* leaves createFilters and createLabels through their catch blocks.
CreateFilter(createOk) ==
  /\ prov.pc = "creating"
  /\ IF createOk
     THEN /\ gmail' = [gmail EXCEPT !.filters = @ \cup {Head(prov.requests)}]
          /\ prov' = [prov EXCEPT
                !.requests = Tail(@),
                !.filterCreates = @ + 1,
                !.pc = IF Tail(prov.requests) = << >> THEN "done" ELSE "creating"]
     ELSE /\ prov' = [prov EXCEPT !.pc = "failed", !.failedAt = "createFilter"]
          /\ UNCHANGED gmail
  /\ UNCHANGED feedConfig
  /\ UNCHANGED <<mainVars, race, pureCall>>

\* The configurations provisioned: the README example and the one-group one.
ProvisionConfigs == {FeedConfig, TechConfig, SparseConfig}

ProvisionInit ==
  /\ feeds = [u \in Urls |-> << >>]
  /\ now = 0
  /\ cursorFile = [exists |-> FALSE, data |-> EmptyCursor]
  /\ pc = "idle"
  /\ options = DefaultOptions
  /\ cursor = EmptyCursor
  /\ cursorExists = FALSE
  /\ fetchState = << >>
  /\ feedResults = << >>
  /\ items = << >>
  /\ sendIdx = 0
  /\ attempt = 0
  /\ callLog = NewCallLog
  /\ results = [sent |-> 0, failed |-> 0, failedItems |-> << >>]
  /\ runLog = IdleRunLog
  /\ feedConfig \in ProvisionConfigs
  /\ gmail \in {EmptyMailbox, [EmptyMailbox EXCEPT !.labels = {MAIL_LABELS.RSS_FEED}]}
  /\ prov = IdleProvisioning
  /\ race = IdleRace
  /\ pureCall = NoCall

ProvisionNext ==
  \/ \E clientOk \in BOOLEAN : StartCreateLabels(clientOk)
  \/ \E listOk \in BOOLEAN, createOk \in BOOLEAN, titleOk \in BOOLEAN :
       EnsureLabel(listOk, createOk, titleOk)
  \/ \E listOk \in BOOLEAN : ListFilters(listOk)
  \/ \E createOk \in BOOLEAN : CreateFilter(createOk)

ProvisionSpec == ProvisionInit /\ [][ProvisionNext]_vars

\* ------------------------------------------- delivery with default retries
\* Runs of the delivering mode with the default --max-retries over the
\* one-group configuration: its feed starts with two dated items and
\* publishes more between the runs.
ScenarioDates == 1..(MaxTime + 1)

DeliveryInit ==
  /\ \E d1, d2 \in ScenarioDates :
       /\ d1 # d2
       /\ feeds = [u \in Urls |->
                     IF u = "u1"
                     THEN << [id |-> 2, isoDate |-> d2], [id |-> 1, isoDate |-> d1] >>
                     ELSE << >>]
  /\ now = 0
  /\ cursorFile = [exists |-> FALSE, data |-> EmptyCursor]
  /\ pc = "idle"
  /\ options = DefaultOptions
  /\ cursor = EmptyCursor
  /\ cursorExists = FALSE
  /\ fetchState = << >>
  /\ feedResults = << >>
  /\ items = << >>
  /\ sendIdx = 0
  /\ attempt = 0
  /\ callLog = NewCallLog
  /\ results = [sent |-> 0, failed |-> 0, failedItems |-> << >>]
  /\ runLog = IdleRunLog
  /\ feedConfig = TechConfig
  /\ gmail = EmptyMailbox
  /\ prov = IdleProvisioning
  /\ race = IdleRace
  /\ pureCall = NoCall

DeliveryNext ==
  \/ \E d \in ScenarioDates : Publish("u1", d)
  \/ Tick
  \/ \E args \in DefaultCommandLines : StartRun(args)
  \/ \E configOk \in BOOLEAN, readOk \in BOOLEAN : FetchFeedConfig(configOk, readOk)
  \/ \E i \in 1..Len(FeedsToFetch), outcome \in {"ok", "error", "cert"} : FetchFeed(i, outcome)
  \/ JoinFetches
  \/ SendAttempt(TRUE, NoResponseCode)
  \/ \E code \in ErrorCodes : SendAttempt(FALSE, code)
  \/ \E readOk \in BOOLEAN : UpdateCursor(readOk)
  \/ ExitRun

DeliverySpec == DeliveryInit /\ [][DeliveryNext]_vars

\* ------------------------------------------- delivery over two taxonomies
\* The runs of the delivering mode over a one-group taxonomy whose group is
\* named "Tech" or has the empty name.
DeliveryConfigs == {TechConfig, UnnamedConfig}

LabelledDeliveryInit ==
  /\ \E d1, d2 \in ScenarioDates :
       /\ d1 # d2
       /\ feeds = [u \in Urls |->
                     IF u = "u1"
                     THEN << [id |-> 2, isoDate |-> d2], [id |-> 1, isoDate |-> d1] >>
                     ELSE << >>]
  /\ now = 0
  /\ cursorFile = [exists |-> FALSE, data |-> EmptyCursor]
  /\ pc = "idle"
  /\ options = DefaultOptions
  /\ cursor = EmptyCursor
  /\ cursorExists = FALSE
  /\ fetchState = << >>
  /\ feedResults = << >>
  /\ items = << >>
  /\ sendIdx = 0
  /\ attempt = 0
  /\ callLog = NewCallLog
  /\ results = [sent |-> 0, failed |-> 0, failedItems |-> << >>]
  /\ runLog = IdleRunLog
  /\ feedConfig \in DeliveryConfigs
  /\ gmail = EmptyMailbox
  /\ prov = IdleProvisioning
  /\ race = IdleRace
  /\ pureCall = NoCall

LabelledDeliverySpec == LabelledDeliveryInit /\ [][DeliveryNext]_vars

\* ----------------------------------------------------- overlapping runs
\* Two delivering runs of main() started independently over the same cursor
\* file (there is no lock): each holds its own loaded cursor and results,
\* and their awaits interleave.  The feed goes on publishing meanwhile.
raceVars == <<now, pc, options, cursor, cursorExists, fetchState, feedResults,
              items, sendIdx, attempt, callLog, results, runLog, feedConfig,
              gmail, prov, pureCall>>

RunActive(r) == race.runs[r].pc \notin {"idle", "done"}

\* main up to fetchFeeds: fetchFeedConfig loads the cursor file.
RaceStart(r, readOk) ==
  /\ race.runs[r].pc = "idle"
  /\ LET loaded == loadCursorFile(cursorFile, readOk)
     IN  race' = [race EXCEPT
           !.runs[r].pc = "fetch",
           !.runs[r].cursor = loaded.cursor,
           !.overlapped = @ \/ RunActive(3 - r),
           !.readFailed = @ \/ (cursorFile.exists /\ ~readOk)]
  /\ UNCHANGED <<feeds, cursorFile>>
  /\ UNCHANGED raceVars

\* fetchFeeds: every feed is fetched against the run's own loaded cursor.
RaceFetch(r, parseOk) ==
  /\ race.runs[r].pc = "fetch"
  /\ LET fetched == [i \in 1..Len(FeedsToFetch) |->
                       LET url == FeedsToFetch[i].url
                       IN  fetchFeedWithRetry(FeedsToFetch[i], race.runs[r].cursor,
                                              [title |-> ParsedTitle[url],
                                               items |-> feeds[url]],
                                              now, parseOk[i])]
     IN  race' = [race EXCEPT !.runs[r].pc = "send",
                              !.runs[r].feedResults = CombineResults(fetched)]
  /\ UNCHANGED <<feeds, cursorFile>>
  /\ UNCHANGED raceVars

\* The keys (url, id) of the items of a run's deliverables.
ItemKeys(its) == {<<its[i].item.feedUrl, its[i].item.id>> : i \in 1..Len(its)}

\* processFeedsAndSendEmails: sendEmails over the run's deliverables (with
\* the default --max-retries every one of them is attempted); the sends in
\* `sent` succeed, the others finally fail.
RaceSend(r, sent) ==
  /\ race.runs[r].pc = "send"
  /\ LET deliverables ==
           ItemKeys(extractItemsFromFeeds(race.runs[r].feedResults, feedConfig))
     IN  /\ sent \subseteq deliverables
         /\ race' = [race EXCEPT
               !.runs[r].pc = AfterSending(race.runs[r].feedResults),
               !.runs[r].attempted = deliverables,
               !.runs[r].emailed = sent]
  /\ UNCHANGED <<feeds, cursorFile>>
  /\ UNCHANGED raceVars

\* updateCursor line 124: `await loadCursorFile()`.
RaceReload(r, readOk) ==
  /\ race.runs[r].pc = "cursor"
  /\ race' = [race EXCEPT
       !.runs[r].pc = "write",
       !.runs[r].reloaded = loadCursorFile(cursorFile, readOk).cursor,
       !.readFailed = @ \/ (cursorFile.exists /\ ~readOk)]
  /\ UNCHANGED <<feeds, cursorFile>>
  /\ UNCHANGED raceVars

\* updateCursor lines 127-139: set the entries and `await fs.writeFile`.
RaceWrite(r) ==
  /\ race.runs[r].pc = "write"
  /\ LET data == AdvanceCursor(race.runs[r].reloaded, race.runs[r].feedResults, now)
     IN  /\ cursorFile' = [exists |-> TRUE, data |-> data]
         /\ race' = [race EXCEPT
               !.runs[r].pc = "done",
               !.written = [u \in Urls |->
                              IF data[u] > @[u] THEN data[u] ELSE @[u]]]
  /\ UNCHANGED feeds
  /\ UNCHANGED raceVars

RaceInit ==
  /\ feeds = [u \in Urls |-> << >>]
  /\ now = MaxTime
  /\ cursorFile = [exists |-> FALSE, data |-> EmptyCursor]
  /\ pc = "idle"
  /\ options = DefaultOptions
  /\ cursor = EmptyCursor
  /\ cursorExists = FALSE
  /\ fetchState = << >>
  /\ feedResults = << >>
  /\ items = << >>
  /\ sendIdx = 0
  /\ attempt = 0
  /\ callLog = NewCallLog
  /\ results = [sent |-> 0, failed |-> 0, failedItems |-> << >>]
  /\ runLog = IdleRunLog
  /\ feedConfig = TechConfig
  /\ gmail = EmptyMailbox
  /\ prov = IdleProvisioning
  /\ race = IdleRace
  /\ pureCall = NoCall

RaceNext ==
  \/ \E d \in Dates : PublishedCount < MaxItems /\ Publish("u1", d)
  \/ \E r \in {1, 2}, readOk \in BOOLEAN : RaceStart(r, readOk)
  \/ \E r \in {1, 2}, parseOk \in [1..Len(FeedsToFetch) -> BOOLEAN] : RaceFetch(r, parseOk)
  \/ \E r \in {1, 2}, sent \in SUBSET ({"u1"} \X (1..MaxItems)) : RaceSend(r, sent)
  \/ \E r \in {1, 2}, readOk \in BOOLEAN : RaceReload(r, readOk)
  \/ \E r \in {1, 2} : RaceWrite(r)

RaceSpec == RaceInit /\ [][RaceNext]_vars

\* ------------------------------------------------------- pure functions
\* One call of a pure function of the taxonomy resolver, the fetch adapter
\* or the message builder on an argument drawn from a bounded set.
PureNames == {<< >>, <<"A">>, <<"B">>}

PureFeedLists ==
  {<< >>,
   << [title |-> <<"T1">>, url |-> "u1"] >>,
   << [title |-> <<"T2">>, url |-> "u2"] >>,
   << [title |-> <<"T1">>, url |-> "u1"], [title |-> <<"T2">>, url |-> "u2"] >>}

LeafGroups == [name : PureNames, feeds : PureFeedLists, groups : {<< >>}]

MidGroups ==
  [name : PureNames, feeds : PureFeedLists,
   groups : {<< >>} \cup {<<g>> : g \in LeafGroups}]

\* Trees of up to two top-level groups, each with at most one subgroup.
PureConfigs ==
  [groups : {<< >>} \cup {<<g>> : g \in MidGroups}
              \cup {<<g, h>> : g \in {x \in MidGroups : x.groups # << >>},
                               h \in {x \in MidGroups : x.groups = << >>}}]

\* Group names as they occur in paths, one of them with brackets in it.
PathNames == PureNames \cup {<<"News ", "[", "EN", "]">>}

\* Group paths of one or two segments, and the sentinel.
PurePaths ==
  {JoinWith(<<a>>, "/") : a \in PathNames}
    \cup {JoinWith(<<a, b>>, "/") : a \in PathNames, b \in PathNames}
    \cup {MAIL_LABELS.UNCATEGORIZED}

\* Timestamps of parsed items: before the epoch, none, after the epoch.
ParsedDates == (NoDate - 1)..MaxTime

\* Parsed documents of up to MaxItems + 1 items, ids in document order.
ParsedItemLists ==
  UNION { { [i \in 1..n |-> [id |-> i, isoDate |-> ds[i]]] : ds \in [1..n -> ParsedDates] }
          : n \in 0..(MaxItems + 1) }

NewCall(fn, arg) == [fn |-> fn, arg |-> arg, out |-> << >>, returned |-> FALSE]

Return(out) == pureCall' = [pureCall EXCEPT !.out = out, !.returned = TRUE]

pureVars == <<feeds, now, cursorFile, pc, options, cursor, cursorExists, fetchState,
              feedResults, items, sendIdx, attempt, callLog, results, runLog,
              feedConfig, gmail, prov, race>>

CallGetFeedItems ==
  /\ pureCall.fn = "getFeedItems" /\ ~pureCall.returned
  /\ Return(getFeedItems("u1", pureCall.arg.sinceDate, <<"T1">>,
                         [title |-> << >>, items |-> pureCall.arg.items],
                         pureCall.arg.clock).items)
  /\ UNCHANGED pureVars

CallExtractFeeds ==
  /\ pureCall.fn = "extractFeeds" /\ ~pureCall.returned
  /\ Return(extractFeeds(pureCall.arg))
  /\ UNCHANGED pureVars

CallFindGroupPathForFeed ==
  /\ pureCall.fn = "findGroupPathForFeed" /\ ~pureCall.returned
  /\ Return(findGroupPathForFeed(pureCall.arg.feedUrl, pureCall.arg.feedConfig))
  /\ UNCHANGED pureVars

CallFormatGroupHierarchyForSubject ==
  /\ pureCall.fn = "formatGroupHierarchyForSubject" /\ ~pureCall.returned
  /\ Return(formatGroupHierarchyForSubject(pureCall.arg))
  /\ UNCHANGED pureVars

CallBuildLabelString ==
  /\ pureCall.fn = "buildLabelString" /\ ~pureCall.returned
  /\ Return(buildLabelString(pureCall.arg))
  /\ UNCHANGED pureVars

PureInit ==
  /\ feeds = [u \in Urls |-> << >>]
  /\ now = 0
  /\ cursorFile = [exists |-> FALSE, data |-> EmptyCursor]
  /\ pc = "idle"
  /\ options = DefaultOptions
  /\ cursor = EmptyCursor
  /\ cursorExists = FALSE
  /\ fetchState = << >>
  /\ feedResults = << >>
  /\ items = << >>
  /\ sendIdx = 0
  /\ attempt = 0
  /\ callLog = NewCallLog
  /\ results = [sent |-> 0, failed |-> 0, failedItems |-> << >>]
  /\ runLog = IdleRunLog
  /\ feedConfig = FeedConfig
  /\ gmail = EmptyMailbox
  /\ prov = IdleProvisioning
  /\ race = IdleRace
  /\ \/ \E its \in ParsedItemLists, since \in {NoEntry} \cup Dates, clock \in Dates :
          pureCall = NewCall("getFeedItems",
                             [items |-> its, sinceDate |-> since, clock |-> clock])
     \/ \E config \in PureConfigs : pureCall = NewCall("extractFeeds", config)
     \/ \E config \in PureConfigs, u \in Urls :
          pureCall = NewCall("findGroupPathForFeed",
                             [feedUrl |-> u, feedConfig |-> config])
     \/ \E path \in PurePaths :
          pureCall = NewCall("formatGroupHierarchyForSubject", path)
     \/ \E path \in PurePaths : pureCall = NewCall("buildLabelString", path)

PureNext ==
  \/ CallGetFeedItems
  \/ CallExtractFeeds
  \/ CallFindGroupPathForFeed
  \/ CallFormatGroupHierarchyForSubject
  \/ CallBuildLabelString

PureSpec == PureInit /\ [][PureNext]_vars

\* ----------------------------------------------------------------- claims
\* Vocabulary of the claims, stated independently of the operators above.
NormalRun == ~options.updateCursorOnly /\ ~options.createLabels

Retryable(code) == code \in 400..499

DatedItems(its) == {k \in 1..Len(its) : its[k].isoDate # NoDate}

\* The publish timestamp of the newest item of a non-empty list, the clock
\* value when no item of it carries a timestamp.
NewestTimestamp(its, clock) ==
  IF DatedItems(its) = {} THEN clock
  ELSE LET k == CHOOSE x \in DatedItems(its) :
                  \A y \in DatedItems(its) : its[y].isoDate <= its[x].isoDate
       IN  its[k].isoDate

Settled(i) == i \in DOMAIN fetchState /\ fetchState[i].status = "done"

Joined == pc \in {"prompt", "labels", "send", "cursor", "done"} /\ runLog.crashed # "config"

\* C1 (as claimed): for every feed URL and every run that terminates, the
\* watermark stored in the cursor file after the run is greater than or
\* equal to the watermark stored for it before the run.
C1_CursorNeverMovesBackward ==
  pc = "done" =>
    \A u \in Urls :
      (runLog.cursorAtStart.exists /\ runLog.cursorAtStart.data[u] # NoEntry)
        => /\ cursorFile.exists
           /\ cursorFile.data[u] # NoEntry
           /\ cursorFile.data[u] >= runLog.cursorAtStart.data[u]

C3_DatedItemsAreNewerThanWatermark ==
  \A i \in DOMAIN fetchState :
    (Settled(i) /\ fetchState[i].ok /\ cursor[fetchState[i].url] # NoEntry) =>
      \A j \in 1..Len(fetchState[i].items) :
        fetchState[i].items[j].isoDate # NoDate
          => fetchState[i].items[j].isoDate > cursor[fetchState[i].url]

C3_Witness ==
  \E i \in DOMAIN fetchState :
    /\ pc = "fetch"
    /\ Settled(i)
    /\ fetchState[i].ok
    /\ cursor[fetchState[i].url] # NoEntry
    /\ Len(fetchState[i].items) = 1
    /\ \E k \in 1..Len(feeds[fetchState[i].url]) :
         feeds[fetchState[i].url][k].isoDate = cursor[fetchState[i].url]

\* C4 (as claimed): an item with no publish timestamp is always included
\* in the result of getFeedItems, for every value of the watermark.
C4_UndatedItemsAlwaysIncluded ==
  \A i \in DOMAIN fetchState :
    (pc = "fetch" /\ Settled(i) /\ fetchState[i].ok) =>
      \A k \in 1..Len(feeds[fetchState[i].url]) :
        feeds[fetchState[i].url][k].isoDate = NoDate
          => \E j \in 1..Len(fetchState[i].items) :
               fetchState[i].items[j].id = feeds[fetchState[i].url][k].id

\* C5: when every attempt fails with a retryable error (responseCode in
\* 400..499) and maxRetries >= 0, retryOperation invokes the operation
\* exactly maxRetries + 1 times and then throws the error of the last
\* attempt; it does not end before that.
C5_RetryableFailsAfterMaxRetriesPlusOne ==
  (options.maxRetries >= 0 /\ pc # "idle"
     /\ Len(callLog.errors) = callLog.invocations
     /\ \A k \in 1..Len(callLog.errors) : Retryable(callLog.errors[k])) =>
    /\ callLog.invocations <= options.maxRetries + 1
    /\ callLog.ended =>
         /\ callLog.thrown
         /\ callLog.invocations = options.maxRetries + 1
         /\ callLog.surfaced = callLog.errors[Len(callLog.errors)]
    /\ (callLog.invocations = options.maxRetries + 1) => callLog.ended

C5_Witness ==
  /\ options.maxRetries >= 1
  /\ callLog.ended
  /\ callLog.thrown
  /\ callLog.invocations = options.maxRetries + 1
  /\ \A k \in 1..Len(callLog.errors) : Retryable(callLog.errors[k])

\* C6: an attempt that fails with an error without a responseCode in
\* 400..499 is the last one: retryOperation throws that error at once, with
\* no further invocation and no delay after it (a first attempt that fails
\* so means one invocation and zero delays).
C6_NonRetryableSurfacesImmediately ==
  \A k \in 1..Len(callLog.errors) :
    ~Retryable(callLog.errors[k]) =>
      /\ k = Len(callLog.errors)
      /\ callLog.ended
      /\ callLog.thrown
      /\ callLog.surfaced = callLog.errors[k]
      /\ callLog.invocations = k
      /\ Len(callLog.delays) = k - 1

C6_Witness ==
  /\ pc = "send"
  /\ options.maxRetries >= 1
  /\ callLog.ended
  /\ callLog.thrown
  /\ callLog.invocations = 1
  /\ callLog.errors = <<TempHigh>>
  /\ callLog.delays = << >>

\* C7 (as claimed): at the end of a normal run one send was attempted for
\* every item of the results, sent + failed equals the number of items and
\* the failed-subjects list has one entry per failed item.
C7_EveryItemAttempted ==
  (pc = "done" /\ NormalRun /\ runLog.crashed # "config") =>
    /\ runLog.attempted = Len(items)
    /\ results.sent + results.failed = Len(items)
    /\ Len(results.failedItems) = results.failed

\* C8 (as claimed): in a normal run where item sends fail, the cursor entry
\* of every feed that produced items is still advanced to that feed's
\* newest item timestamp and persisted.
C8_FailedSendsDoNotBlockCursor ==
  (pc = "done" /\ NormalRun /\ runLog.rejected > 0) =>
    \A r \in 1..Len(feedResults) :
      /\ cursorFile.exists
      /\ runLog.writes = 1
      /\ cursorFile.data[feedResults[r].url]
           = NewestTimestamp(feedResults[r].items, runLog.writeClock)

\* C9: the cursor file is written at most once per run and only when at
\* least one feed produced at least one item; a run whose results are empty
\* leaves the file as it was (and does not create it).
C9_CursorWrittenOnceAndOnlyWithItems ==
  pc # "idle" =>
    /\ runLog.writes <= 1
    /\ runLog.writes > 0 => Len(feedResults) > 0
    /\ runLog.writes = 0 => cursorFile = runLog.cursorAtStart
    /\ (pc = "done" /\ Len(feedResults) = 0) => cursorFile = runLog.cursorAtStart

C9_Witness ==
  /\ pc = "done"
  /\ runLog.crashed = ""
  /\ Len(feedResults) = 0
  /\ ~cursorFile.exists
  /\ \E i \in DOMAIN fetchState :
       ~fetchState[i].ok /\ feeds[fetchState[i].url] # << >>
  /\ \E i \in DOMAIN fetchState : fetchState[i].ok

\* C10: the results map holds exactly the feed URLs whose fetch succeeded
\* with at least one item, with those items, whatever the outcome of the
\* other feeds' fetches; the run goes on after a failed fetch.
C10_ResultsAreTheSuccessfulFeeds ==
  Joined =>
    /\ \A u \in Urls :
         (ResultIndex(feedResults, u) # 0)
           <=> \E i \in DOMAIN fetchState :
                 /\ fetchState[i].url = u
                 /\ fetchState[i].ok
                 /\ Len(fetchState[i].items) > 0
    /\ \A r \in 1..Len(feedResults) :
         \E i \in DOMAIN fetchState :
           /\ fetchState[i].url = feedResults[r].url
           /\ fetchState[i].items = feedResults[r].items
    /\ runLog.crashed \in {"", "TypeError"}

C10_Witness ==
  /\ pc = "send"
  /\ Len(feedResults) = 1
  /\ \E i \in DOMAIN fetchState : ~fetchState[i].ok
  /\ \E i \in DOMAIN fetchState : fetchState[i].ok /\ Len(fetchState[i].items) > 0

\* C11 (as claimed): in an --update-cursor-only run that starts with a
\* cursor file on disk, the confirmation prompt has been issued before the
\* cursor file is written, and when the user declines the file is unchanged.
C11_PromptBeforeCursorWrite ==
  (pc # "idle" /\ options.updateCursorOnly /\ runLog.cursorAtStart.exists) =>
    /\ (pc = "cursor" \/ runLog.writes > 0) => (runLog.prompted /\ ~runLog.declined)
    /\ runLog.declined => (runLog.writes = 0 /\ cursorFile = runLog.cursorAtStart)

\* C12: a run with --update-cursor-only attempts no send, with or without
\* --create-labels, and when it has performed the cursor update every feed
\* with new items has its entry at its newest item's timestamp.
C12_CursorOnlyNeverSends ==
  (pc # "idle" /\ options.updateCursorOnly) =>
    /\ runLog.attempted = 0
    /\ callLog.invocations = 0
    /\ results.sent = 0 /\ results.failed = 0
    /\ pc # "send"
    /\ (pc = "done" /\ runLog.writes > 0) =>
         \A r \in 1..Len(feedResults) :
           cursorFile.data[feedResults[r].url]
             = NewestTimestamp(feedResults[r].items, runLog.writeClock)

C12_Witness ==
  /\ pc = "done"
  /\ options.updateCursorOnly
  /\ options.createLabels
  /\ runLog.writes = 1
  /\ Len(feedResults) = 2

\* C13: a run with --create-labels and without --update-cursor-only never
\* writes the cursor file and attempts no send, whether createLabels
\* resolves or rejects.
C13_LabelModeLeavesCursorAlone ==
  (pc # "idle" /\ options.createLabels /\ ~options.updateCursorOnly) =>
    /\ runLog.writes = 0
    /\ cursorFile = runLog.cursorAtStart
    /\ runLog.attempted = 0
    /\ callLog.invocations = 0
    /\ pc \notin {"send", "cursor", "prompt"}

C13_Witness ==
  /\ pc = "done"
  /\ options.createLabels
  /\ ~options.updateCursorOnly
  /\ runLog.labels = "failed"
  /\ Len(feedResults) > 0
  /\ cursorFile.exists

\* C16: when fetching the feed configuration fails the run ends without a
\* feed fetch, without a send and without a write of the cursor file.
C16_ConfigFailureIsFatal ==
  runLog.crashed = "config" =>
    /\ pc = "done"
    /\ fetchState = << >>
    /\ feedResults = << >>
    /\ runLog.attempted = 0
    /\ callLog.invocations = 0
    /\ runLog.writes = 0
    /\ cursorFile = runLog.cursorAtStart

C16_Witness ==
  /\ runLog.crashed = "config"
  /\ pc = "done"
  /\ cursorFile.exists
  /\ \E u \in Urls : feeds[u] # << >>

\* C20 (as claimed): while a feed is being fetched getFeedItems has called
\* itself at most once after a certificate error.
C20_CertRetryAtMostOnce ==
  \A i \in DOMAIN fetchState : fetchState[i].certRetries <= 1

\* The publish timestamp of the item of the first feed with the given id.
DateOf(id) ==
  LET k == CHOOSE x \in 1..Len(feeds["u1"]) : feeds["u1"][x].id = id
  IN  feeds["u1"][k].isoDate

\* T2 of the two-run scenario: the later timestamp of the first two items.
ScenarioT2 == IF DateOf(1) > DateOf(2) THEN DateOf(1) ELSE DateOf(2)

FetchedOk == Len(fetchState) = 1 /\ fetchState[1].status = "done" /\ fetchState[1].ok

C18_ExponentialBackoff ==
  /\ callLog.invocations = 0 => callLog.delays = << >>
  /\ callLog.invocations > 0 => Len(callLog.delays) = callLog.invocations - 1
  /\ Len(callLog.delays) <= options.maxRetries
  /\ \A n \in 1..Len(callLog.delays) :
       callLog.delays[n] = IF n = 1 THEN options.initialRetryDelay
                           ELSE 2 * callLog.delays[n - 1]
  /\ runLog.args = << >> =>
       /\ options.maxRetries = 3
       /\ options.initialRetryDelay = 5000
       /\ callLog.delays = SubSeq(<<5000, 10000, 20000>>, 1, Len(callLog.delays))

C18_Witness ==
  /\ pc # "idle"
  /\ runLog.args = << >>
  /\ callLog.ended
  /\ callLog.thrown
  /\ callLog.invocations = 4
  /\ callLog.delays = <<5000, 10000, 20000>>

\* C14 (as claimed): a createLabels call that follows a resolved call
\* against the same taxonomy and the mailbox that call left issues no
\* label-create and no filter-create call.
C14_SecondRunCreatesNothing ==
  (prov.run >= 2 /\ prov.prevResolved) =>
    /\ prov.labelCreates = 0
    /\ prov.filterCreates = 0

\* C15 (as claimed): after a createLabels call that resolved and started
\* from a mailbox without filters, exactly one filter has the sender address
\* as its only criterion, and it adds the root label and removes INBOX.
C15_OneCatchAllSenderFilter ==
  (prov.pc = "done" /\ prov.filtersAtStart = {}) =>
    /\ Cardinality({f \in gmail.filters : f.subject = << >>}) = 1
    /\ \A f \in gmail.filters :
         f.subject = << >> =>
           /\ f.from = FromEmail
           /\ f.addLabel = MAIL_LABELS.RSS_FEED
           /\ f.removeInbox

\* C19 (as claimed): createLabels is aborted only by a failure of a listing
\* call (or of the client set-up before any provisioning), never by the
\* failure to create one label or one filter.
C19_OnlyListingFailuresAbort ==
  prov.pc = "failed" => prov.failedAt \in {"client", "listLabels", "listFilters"}

\* ----------------------------------------------------- overlapping runs
\* A feed's stored watermark is lower than a value written for it before.
WatermarkRegressed ==
  \E u \in Urls : cursorFile.data[u] < race.written[u]

\* Both runs emailed the same item (all items of this specification are dated).
EmailedByBoth == race.runs[1].emailed \cap race.runs[2].emailed # {}

SendsInFlight == runLog.attempted - (results.sent + results.failed)

\* C22: within one run at most one send (its backoff waits included) is in
\* flight: the send of an item has started only when every earlier item's
\* send has succeeded or finally failed, the one in flight is the send of
\* the item sendEmails is at, and no send has started and no cursor write
\* has happened while a feed fetch was still pending.
C22_SendsAreSequential ==
  /\ SendsInFlight \in {0, 1}
  /\ SendsInFlight = 1 =>
       /\ pc = "send" /\ ~callLog.ended
       /\ sendIdx = results.sent + results.failed + 1
  /\ pc = "send" => runLog.attempted \in {sendIdx - 1, sendIdx}
  /\ (pc \in {"send", "cursor"} \/ runLog.attempted > 0 \/ runLog.writes > 0) =>
       \A i \in 1..Len(FeedsToFetch) : Settled(i)

C22_Witness ==
  /\ pc = "send" /\ sendIdx = 2 /\ attempt > 0
  /\ SendsInFlight = 1
  /\ results.sent + results.failed = 1
  /\ Len(fetchState) = 2

\* ------------------------------------------------------- provisioned rules
RECURSIVE HasFeedBeneath(_)
\* The group holds a feed, directly or in a subgroup at any depth.
HasFeedBeneath(group) ==
  \/ Len(group.feeds) > 0
  \/ \E i \in 1..Len(group.groups) : HasFeedBeneath(group.groups[i])

RECURSIVE TaxonomyGroups(_, _)
\* Every group of the tree with the names of its ancestors and its own.
TaxonomyGroups(groups, ancestors) ==
  UNION { LET names == ancestors \o <<groups[i].name>>
          IN  {[names |-> names, hasFeed |-> HasFeedBeneath(groups[i])]}
              \cup TaxonomyGroups(groups[i].groups, names)
          : i \in 1..Len(groups) }

RECURSIVE LabelOf(_)
\* The label path of a group: "RSS Feeds/name1/.../namek".
LabelOf(names) ==
  IF names = << >> THEN MAIL_LABELS.RSS_FEED
  ELSE LabelOf(SubSeq(names, 1, Len(names) - 1)) \o <<"/">> \o names[Len(names)]

\* The label paths a feed of the taxonomy can have: under its group's label,
\* named after the title of its document or after its configured title.
FeedLabels ==
  LET records == extractFeeds(feedConfig)
  IN  { MAIL_LABELS.RSS_FEED \o <<"/">> \o records[i].groupPath \o <<"/">> \o title :
          i \in 1..Len(records),
          title \in {records[j].title : j \in 1..Len(records)}
                    \cup {ParsedTitle[u] : u \in Urls} }

ProvisionedFromScratch == prov.pc = "done" /\ prov.filtersAtStart = {}

\* C23 (as claimed): after provisioning a mailbox without filters, a filter
\* matching the bracketed path of a group alone exists if and only if the
\* group has at least one feed beneath it, directly or transitively, and
\* such a filter applies the group's label and does not remove INBOX.
C23_GroupFilterIffFeedBeneath ==
  ProvisionedFromScratch =>
    \A g \in TaxonomyGroups(feedConfig.groups, << >>) :
      LET rules == {f \in gmail.filters : f.subject = Brackets(g.names)}
      IN  /\ (rules # {}) <=> g.hasFeed
          /\ \A f \in rules : f.addLabel = LabelOf(g.names) /\ ~f.removeInbox

\* The filters that match a subject and remove INBOX.
LeafFilters == {f \in gmail.filters : f.subject # << >> /\ f.removeInbox}

\* C24 (as claimed): after provisioning a mailbox without filters there is
\* exactly one leaf filter per feed and none for a path that is not a feed:
\* every leaf filter applies the label of a feed, and no other label lies
\* beneath that label.
C24_OneLeafFilterPerFeed ==
  ProvisionedFromScratch =>
    /\ Cardinality(LeafFilters) = Len(extractFeeds(feedConfig))
    /\ \A f \in LeafFilters :
         /\ f.addLabel \in FeedLabels
         /\ ~\E l \in gmail.labels : l # f.addLabel /\ StartsWith(l, f.addLabel \o <<"/">>)

\* ------------------------------------------------------ cursor read failure
\* The run loaded no cursor: the file was missing, unreadable or unparsable.
LoadedNoCursor ==
  pc \notin {"idle", "config"} /\ runLog.crashed # "config" /\ ~cursorExists

\* The fetch of flattened feed i returned every item its feed publishes.
WholeBacklog(i) ==
  {fetchState[i].items[j].id : j \in 1..Len(fetchState[i].items)}
    = {feeds[fetchState[i].url][k].id : k \in 1..Len(feeds[fetchState[i].url])}

\* C26 (as claimed): a run that could not load the cursor file is not
\* aborted: it goes on with an empty cursor, every fetch that succeeds
\* returns the feed's whole backlog, and in the delivering mode one send is
\* attempted for every item of that backlog.
C26_CursorReadFailureIsFirstRun ==
  LoadedNoCursor =>
    /\ cursor = EmptyCursor
    /\ \A i \in DOMAIN fetchState :
         (Settled(i) /\ fetchState[i].ok) => WholeBacklog(i)
    /\ (NormalRun /\ pc \in {"cursor", "done"}) =>
         /\ runLog.crashed = ""
         /\ \A i \in DOMAIN fetchState :
              fetchState[i].ok =>
                \A k \in 1..Len(feeds[fetchState[i].url]) :
                  \E n \in 1..runLog.attempted :
                    /\ items[n].item.feedUrl = fetchState[i].url
                    /\ items[n].item.id = feeds[fetchState[i].url][k].id

\* ---------------------------------------------------------- pure functions
Returned(fn) == pureCall.fn = fn /\ pureCall.returned

\* C25 (as claimed): the list getFeedItems returns is non-increasing by
\* publish timestamp, and an item without a timestamp comes after every
\* dated item.
C25_NewestFirstUndatedLast ==
  Returned("getFeedItems") =>
    \A i \in 1..Len(pureCall.out), j \in 1..Len(pureCall.out) :
      i < j =>
        /\ (pureCall.out[i].isoDate # NoDate /\ pureCall.out[j].isoDate # NoDate)
             => pureCall.out[i].isoDate >= pureCall.out[j].isoDate
        /\ ~(pureCall.out[i].isoDate = NoDate /\ pureCall.out[j].isoDate # NoDate)

RECURSIVE FlattenDepthFirst(_, _)
\* The feed references of a group tree in depth-first order: a group's own
\* feeds, then its subgroups, then its later siblings; each with the names
\* of its ancestor groups, from the root group down, joined by "/".
FlattenDepthFirst(groups, ancestors) ==
  IF groups = << >> THEN << >>
  ELSE LET names == ancestors \o <<groups[1].name>>
       IN  [i \in 1..Len(groups[1].feeds) |->
              [title |-> groups[1].feeds[i].title, url |-> groups[1].feeds[i].url,
               groupPath |-> JoinWith(names, "/")]]
           \o FlattenDepthFirst(groups[1].groups, names)
           \o FlattenDepthFirst(Tail(groups), ancestors)

\* C27 (as claimed): extractFeeds returns one record per feed reference of
\* the tree, in depth-first order (own feeds before subgroups, siblings in
\* declaration order), each with the "/"-joined names of its ancestor groups
\* as groupPath.
C27_FlattenIsDepthFirst ==
  Returned("extractFeeds") =>
    pureCall.out = FlattenDepthFirst(pureCall.arg.groups, << >>)

\* The position of the first record with the url, 0 when there is none.
FirstRecord(records, url) ==
  IF \E i \in 1..Len(records) : records[i].url = url
  THEN CHOOSE i \in 1..Len(records) :
         /\ records[i].url = url
         /\ \A j \in 1..(i - 1) : records[j].url # url
  ELSE 0

\* C28 (as claimed): for a url of the taxonomy findGroupPathForFeed returns
\* the groupPath of the first record with that url in extractFeeds order,
\* and for a url in no group it returns "Uncategorized".
C28_ResolutionAgreesWithFlatten ==
  Returned("findGroupPathForFeed") =>
    LET records == extractFeeds(pureCall.arg.feedConfig)
        first == FirstRecord(records, pureCall.arg.feedUrl)
    IN  IF first # 0 THEN pureCall.out = records[first].groupPath
        ELSE pureCall.out = MAIL_LABELS.UNCATEGORIZED

RECURSIVE StripBrackets(_)
\* The contents of the bracket pairs of a prefix, in order: each pair runs
\* from a "[" to the next "]"; text that is not such a pair is kept as it is.
StripBrackets(prefix) ==
  IF prefix = << >> THEN << >>
  ELSE IF prefix[1] = "[" /\ \E k \in 2..Len(prefix) : prefix[k] = "]"
  THEN LET k == CHOOSE n \in 2..Len(prefix) :
                  prefix[n] = "]" /\ \A j \in 2..(n - 1) : prefix[j] # "]"
       IN  <<SubSeq(prefix, 2, k - 1)>> \o StripBrackets(SubSeq(prefix, k + 1, Len(prefix)))
  ELSE <<prefix>>

RECURSIVE Bracketed(_)
\* "[s1][s2]...[sn]" for the segments s1..sn.
Bracketed(segments) ==
  IF segments = << >> THEN << >>
  ELSE Bracketed(SubSeq(segments, 1, Len(segments) - 1))
         \o <<"[">> \o segments[Len(segments)] \o <<"]">>

\* C29 (as claimed): for every group path the subject prefix is the
\* concatenation of "[segment]" for its "/"-separated segments in order,
\* stripping the bracket pairs of the prefix gives those segments back, and
\* the sentinel "Uncategorized" maps to "[Uncategorized]".
C29_SubjectPrefixRoundTrip ==
  Returned("formatGroupHierarchyForSubject") =>
    /\ pureCall.out = Bracketed(Split(pureCall.arg, "/"))
    /\ StripBrackets(pureCall.out) = Split(pureCall.arg, "/")
    /\ pureCall.arg = MAIL_LABELS.UNCATEGORIZED
         => pureCall.out = <<"[", "Uncategorized", "]">>

RECURSIVE CommaJoined(_)
\* The entries written one after the other with "," between them.
CommaJoined(entries) ==
  IF Len(entries) = 1 THEN entries[1]
  ELSE CommaJoined(SubSeq(entries, 1, Len(entries) - 1))
         \o <<",">> \o entries[Len(entries)]

\* The ancestor chain of a path with segments s1..sn: the root label, then
\* the label of s1, of s1/s2, ... and of s1/.../sn.
AncestorChain(segments) ==
  [k \in 1..(Len(segments) + 1) |-> LabelOf(SubSeq(segments, 1, k - 1))]

\* C30: for a group path with segments s1..sn buildLabelString returns the
\* comma-joined list "RSS Feeds", "RSS Feeds/s1", ..., "RSS Feeds/s1/.../sn"
\* in that order: n + 1 entries, each a prefix of the next.
C30_LabelHeaderIsAncestorChain ==
  Returned("buildLabelString") =>
    LET segments == Split(pureCall.arg, "/")
        chain == AncestorChain(segments)
    IN  /\ pureCall.out = CommaJoined(chain)
        /\ Len(chain) = Len(segments) + 1
        /\ chain[1] = MAIL_LABELS.RSS_FEED
        /\ \A k \in 1..Len(segments) :
             chain[k + 1] = chain[k] \o <<"/">> \o segments[k]

C30_Witness ==
  /\ Returned("buildLabelString")
  /\ pureCall.arg = <<"A", "/", "B">>
  /\ pureCall.out = <<"RSS Feeds", ",", "RSS Feeds", "/", "A", ",",
                      "RSS Feeds", "/", "A", "/", "B">>

\* ------------------------------------------------------- sequential runs
\* C31 (as claimed): over non-overlapping normal runs (their cursor writes
\* all succeed) no item has a send attempted for it in more than one run.
C31_AttemptedInAtMostOneRun ==
  ~race.overlapped =>
    race.runs[1].attempted \cap race.runs[2].attempted = {}

\* ------------------------------------------------------------ cursor frame
\* C32 (as claimed): the cursor write of a run changes only the entries of
\* the feed urls that have an item in the run's results; the entry of every
\* other url is after the write what it was before the run, also when the
\* reload of the cursor file inside updateCursor failed.
C32_CursorFrame ==
  (pc = "done" /\ runLog.writes > 0) =>
    \A u \in Urls :
      ResultIndex(feedResults, u) = 0
        => cursorFile.data[u] = runLog.cursorAtStart.data[u]

\* ----------------------------------------------------- every retry setting
\* C33 (as claimed): for every accepted value of --max-retries, zero and
\* negative values included, a normal run attempts the send of each item at
\* least once, counts each item whose send failed in the failed tally, goes
\* on to the remaining items and advances the cursor at the end.
C33_AtLeastOneAttempt ==
  (NormalRun /\ Joined) =>
    /\ \A n \in 1..Len(items) :
         (n < sendIdx \/ pc \in {"cursor", "done"})
           => /\ n <= runLog.attempted
              /\ n <= results.sent + results.failed
    /\ results.failed = runLog.rejected
    /\ (pc = "done" /\ Len(feedResults) > 0) => runLog.writes = 1

\* ------------------------------------------------------- delivered labels
\* The paths of the groups of the current taxonomy.
GroupPaths ==
  {JoinWith(g.names, "/") : g \in TaxonomyGroups(feedConfig.groups, << >>)}

\* The labels createLabels ensures for the current taxonomy.
EnsuredLabels ==
  {EntryLabelPath(LabelPlan(feedConfig)[i], titleOk) :
     i \in 1..Len(LabelPlan(feedConfig)), titleOk \in BOOLEAN}

\* The labels named in the X-GM-LABELS header of a deliverable.
HeaderLabels(deliverable) ==
  LET labels == Split(buildLabelString(deliverable.groupPath), ",")
  IN  {labels[k] : k \in 1..Len(labels)}

\* C34 (as claimed): in a normal run the group path of every item whose
\* send was attempted is the path of a group of the current taxonomy, never
\* "Uncategorized", and every label of its X-GM-LABELS header is a label
\* createLabels ensures for that taxonomy.
C34_DeliveredLabelsAreProvisioned ==
  (NormalRun /\ Joined) =>
    \A n \in 1..runLog.attempted :
      /\ items[n].groupPath \in GroupPaths
      /\ items[n].groupPath # MAIL_LABELS.UNCATEGORIZED
      /\ HeaderLabels(items[n]) \subseteq EnsuredLabels

====
